---- MODULE Spec2Model ----
(***************************************************************************)
(* A model of ovh/haproxy-exporter: the scrape scheduler (Beamer), the     *)
(* per-source Exporter with its published buffer, the readers of the       *)
(* published buffer, and the row mapper.                                   *)
(*                                                                         *)
(* The repository holds two variants of the core package:                  *)
(*   "sensision"  - Exporter.Scrape() bool, rendering written straight     *)
(*                  into a bytes.Buffer; Beamer with int64 counters under   *)
(*                  a RWMutex.                                              *)
(*   "prometheus" - Exporter.Scrape() int, samples held in GaugeVecs, the  *)
(*                  rendering published by a goroutine started at the end  *)
(*                  of Scrape(); Beamer with prometheus counters.          *)
(* The variant is fixed by Init; every action follows the code of the      *)
(* variant it runs in.                                                     *)
(***************************************************************************)
EXTENDS Integers, Sequences, FiniteSets, TLC

(***************************************************************************)
(* Bounds of the model.                                                    *)
(***************************************************************************)
\* len(exporters): the number of configured sources.
NExporters == 2
\* viper.GetInt("maxConcurrent"): the capacity of the `running` channel.
MaxConcurrent == 2
\* The number of ticks of ticker.C the scheduler loop receives.
MaxTicks == 3
\* The number of metric fields of a report in the scheduler model.
SamplesPerScrape == 1
\* The number of ticks the flush routine receives.
MaxFlushes == 2
\* The number of records of a report fed to two scrapes in succession.
MaxRows == 2
\* The largest cycle duration (milliseconds) and the largest number of
\* sources NewBeamer is given when its ticker is looked at on its own.
MaxDuration == 12
MaxSources == 4

Sensision == "sensision"
Prometheus == "prometheus"
Variants == {Sensision, Prometheus}

Exporters == 0 .. (NExporters - 1)
TaskIds == 1 .. MaxTicks
Fields == 1 .. SamplesPerScrape

VARIABLES
    variant,        \* which core package is compiled in
    crashed,        \* an unrecovered panic in a goroutine ended the process
    schedPc,        \* the position of the scheduler goroutine
    i,              \* the round-robin cursor shared by the loop and the tasks
    running,        \* the number of tokens in the `running` channel
    ticks,          \* ticks received from ticker.C so far
    quickStart,     \* a value is waiting on the quickStart channel
    scrapeCounter,
    scrapeSkiped,
    scrapeFailures,
    parseFailures,
    bmutex,         \* Beamer.mutex: 0 free, -1 the loop, t > 0 task t
    tasks,          \* the scrape goroutines, by order of dispatch
    emutex,         \* Exporter.mutex per exporter: 0 free, t > 0 task t
    sensision,      \* Exporter.sensision per exporter (bytes.Buffer)
    gauges,         \* Exporter.metrics per exporter (the GaugeVecs)
    prometheus,     \* Exporter.prometheus per exporter (bytes.Buffer)
    gathers,        \* the gather goroutines started by Scrape()
    reader,         \* a caller of Exporter.Metrics()
    row,            \* the record of the report the parser read last
    values,         \* (sensision) the value slots Scrape() fills per record
    out,            \* the samples emitted for that record
    rowFailures,    \* (prometheus) the parse failures counted for that record
    allow,          \* (sensision) the configured list of metrics, {} if unset
    handler,        \* the position of a /metrics request in its handler
    flush,          \* the flush routine: its position and its '.tmp' file
    files,          \* the contents of the files renamed to '.metrics' so far
    report,         \* a report fed to two scrapes in succession
    scan,           \* which of the two scrapes runs, and its position
    store,          \* what the running scrape has produced so far
    first,          \* what the first of the two scrapes produced
    duration,       \* viper "scanDuration" / "loopDuration", milliseconds
    sources,        \* len(exporters) as NewBeamer gets it
    interval        \* the period of the ticker, milliseconds; 0: no ticker yet

schedVars == <<schedPc, i, running, ticks, quickStart>>
counterVars == <<scrapeCounter, scrapeSkiped, scrapeFailures, parseFailures>>
exporterVars == <<emutex, sensision, gauges, prometheus>>
mapVars == <<row, values, out, rowFailures>>
flushVars == <<flush, files>>
reportVars == <<report, scan, store, first>>
tickerVars == <<duration, sources, interval>>
sideVars == <<tickerVars, allow, handler, flushVars, reportVars>>
vars == <<variant, crashed, schedPc, i, running, ticks, quickStart,
          scrapeCounter, scrapeSkiped, scrapeFailures, parseFailures, bmutex,
          tasks, emutex, sensision, gauges, prometheus, gathers, reader,
          row, values, out, rowFailures, allow, handler, flush, files,
          report, scan, store, first, duration, sources, interval>>

(***************************************************************************)
(* bytes.Buffer: the bytes written so far and the capacity of the backing  *)
(* array, both counted in rendered samples.  Reset() keeps the array;      *)
(* a write that fits is done in place, one that does not fit moves the     *)
(* content to a new array of capacity 2*cap + n.                           *)
(***************************************************************************)
EmptyBuffer == [data |-> <<>>, cap |-> 0]

Fits(b) == Len(b.data) + 1 <= b.cap

BufReset(b) == [b EXCEPT !.data = <<>>]

BufWrite(b, tok) ==
    IF Fits(b)
    THEN [b EXCEPT !.data = Append(b.data, tok)]
    ELSE [data |-> Append(b.data, tok), cap |-> 2 * b.cap + 1]

(***************************************************************************)
(* Exporter.Metrics() returns bytes.NewBuffer(buf.Bytes()): a slice of the  *)
(* buffer's own backing array.  A caller still reading it sees every later *)
(* write that lands in that array.                                         *)
(***************************************************************************)
IdleReader ==
    [pc |-> "idle", e |-> 0, snap |-> <<>>, view |-> <<>>, alias |-> FALSE,
     ov |-> {}]

DoneReader == [IdleReader EXCEPT !.pc = "done"]

ReaderAfterWrite(r, e, b, tok) ==
    IF r.pc = "reading" /\ r.e = e /\ r.alias
    THEN IF ~Fits(b)
         THEN [r EXCEPT !.alias = FALSE]
         ELSE IF Len(b.data) + 1 <= Len(r.view)
              THEN [r EXCEPT !.view[Len(b.data) + 1] = tok]
              ELSE r
    ELSE r

RECURSIVE WriteAll(_, _, _, _)
WriteAll(b, r, e, toks) ==
    IF toks = <<>>
    THEN [b |-> b, r |-> r]
    ELSE WriteAll(BufWrite(b, Head(toks)),
                  ReaderAfterWrite(r, e, b, Head(toks)), e, Tail(toks))

(***************************************************************************)
(* The GaugeVecs of one exporter: per metric field, the scrape that set it *)
(* last (0: no child).  registry.Gather() + the encoder render the fields  *)
(* that have a child, in a fixed order.                                    *)
(***************************************************************************)
NoGauges == [j \in Fields |-> 0]

Render(gs) ==
    SelectSeq([j \in Fields |-> <<gs[j], j>>], LAMBDA tk : tk[1] # 0)

Published(e) ==
    IF variant = Sensision THEN sensision[e].data ELSE prometheus[e].data

(***************************************************************************)
(* Scrape goroutines.                                                      *)
(***************************************************************************)
IdleTask ==
    [pc |-> "idle", e |-> 0, fetchOk |-> FALSE, k |-> 0, fails |-> 0,
     broke |-> FALSE, pre |-> <<>>, res |-> 0]

DoneTask == [IdleTask EXCEPT !.pc = "done"]

\* A gather goroutine that has not started, or has ended.
IdleGather == [pc |-> "idle", e |-> 0, mfs |-> <<>>]

\* The task goroutines that hold a slot of `running`.
InFlight == {t \in TaskIds : tasks[t].pc \notin {"idle", "done"}}

\* The tasks that are inside Exporter.Scrape() of exporter e.
ScrapePcs == {"fetch", "cleared", "parse"}
InScrape(e) == {t \in TaskIds : tasks[t].pc \in ScrapePcs /\ tasks[t].e = e}

Dispatched == Cardinality({t \in TaskIds : tasks[t].pc # "idle"})

(***************************************************************************)
(* The records of a stats report.  A record has n fields, columns 0..n-1;  *)
(* the model keeps the columns the mapper treats specially and one metric  *)
(* column: 17 (status), 32 (object type), 61 (ttime).                      *)
(***************************************************************************)
\* const rowLength = 62
rowLength == 62
\* const minCsvFieldCount = 52
minCsvFieldCount == 52
\* fieldIdx == 17 // status field
StatusColumn == 17
\* values[32] / row[32]: the object type
TypeColumn == 32
\* 61: "ttime", the last entry of e.metrics
TtimeColumn == 61

\* The entries of e.metrics the model keeps (both variants have the two).
MetricName(c) == IF c = StatusColumn THEN "status" ELSE "ttime"

MetricColumns == {StatusColumn, TtimeColumn}

SlotColumns == {StatusColumn, TypeColumn, TtimeColumn}

\* The record lengths the model draws from: without a status column, with
\* status and type but too short for the prometheus parser, long enough for
\* it but without column 61, and a full record.
RowLens == {StatusColumn, TypeColumn + 1, minCsvFieldCount, rowLength}

Statuses ==
    {"UP", "UP 1/3", "UP 2/3", "OPEN", "no check",
     "DOWN", "DOWN 1/2", "NOLB", "MAINT", "DRAIN", ""}

TypeCodes == {"0", "1", "2", "3", "4", ""}

TtimeStrings == {"7", "x", ""}

\* A column the record does not have holds "" in the record of the model.
Rows ==
    {r \in [n : RowLens, status : Statuses, type : TypeCodes,
            ttime : TtimeStrings] :
        /\ (r.n <= StatusColumn => r.status = "")
        /\ (r.n <= TypeColumn => r.type = "")
        /\ (r.n <= TtimeColumn => r.ttime = "")}

NoRow == [n |-> 0, status |-> "", type |-> "", ttime |-> ""]

\* csvRow[c] for a column the record has.
Field(r, c) ==
    IF c = StatusColumn THEN r.status
    ELSE IF c = TypeColumn THEN r.type
    ELSE r.ttime

\* values := make([]*string, rowLength), every kept slot pointing at "".
EmptyValues == [c \in SlotColumns |-> ""]

\* The positions of a /metrics request: none yet, about to render the
\* Beamer, about to render exporter e (0 .. NExporters - 1), all delivered
\* (NExporters).
NoRequest == -2
AtBeamer == -1

\* The flush routine waiting for its ticker, no '.tmp' file at hand.
IdleFlush == [pc |-> "wait", k |-> 0, n |-> 0, open |-> FALSE, tmp |-> <<>>]

\* No scrape of the report has started.
IdleScan == [pc |-> "begin", pass |-> 1, pos |-> 0]

\* Nothing produced: no sample, no line written.
EmptyStore == [samples |-> {}, lines |-> 0]

\* The state after construction, but for the configuration and the input.
InitBase ==
    /\ variant \in Variants
    /\ crashed = FALSE
    /\ schedPc = "select"
    /\ i = 0
    /\ running = 0
    /\ ticks = 0
    /\ quickStart = (variant = Prometheus)
    /\ scrapeCounter = 0
    /\ scrapeSkiped = 0
    /\ scrapeFailures = 0
    /\ parseFailures = 0
    /\ bmutex = 0
    /\ tasks = [t \in TaskIds |-> IdleTask]
    /\ emutex = [e \in Exporters |-> 0]
    /\ sensision = [e \in Exporters |-> EmptyBuffer]
    /\ gauges = [e \in Exporters |-> NoGauges]
    /\ prometheus = [e \in Exporters |-> EmptyBuffer]
    /\ gathers = [t \in TaskIds |-> IdleGather]
    /\ reader = IdleReader
    /\ row = NoRow
    /\ values = EmptyValues
    /\ out = {}
    /\ rowFailures = 0
    /\ handler = NoRequest
    /\ flush = IdleFlush
    /\ files = <<>>
    /\ scan = IdleScan
    /\ store = EmptyStore
    /\ first = EmptyStore
    /\ interval = 0

\* viper.SetDefault("scanDuration", 1000)
DefaultDuration == 1000

\* The cycle duration left at its default, the sources those of the model.
DefaultCycle ==
    /\ duration = DefaultDuration
    /\ sources = NExporters

\* No list of metrics configured, no report fed.
Init ==
    /\ InitBase
    /\ DefaultCycle
    /\ allow = {}
    /\ report = <<>>

(***************************************************************************)
(* The ticker of NewBeamer.                                                *)
(***************************************************************************)
Max(a, b) == IF a >= b THEN a ELSE b

\* (sensision) delta := scanDuration / len(exporters); p := math.Max(delta, 1)
\* (prometheus) duration / len(exporters)
\* Both are divisions of Go ints, the operands not negative.
TickerPeriod(d, n) ==
    IF variant = Sensision THEN Max(d \div n, 1) ELSE d \div n

\* ticker := time.NewTicker(p * time.Millisecond): NewTicker panics on a
\* period that is not positive.
NewTicker ==
    /\ ~crashed
    /\ interval = 0
    /\ IF TickerPeriod(duration, sources) <= 0
       THEN /\ crashed' = TRUE
            /\ interval' = interval
       ELSE /\ crashed' = crashed
            /\ interval' = TickerPeriod(duration, sources)
    /\ UNCHANGED <<duration, sources, allow, handler, flushVars, reportVars,
                   mapVars, variant, schedVars, counterVars, bmutex, tasks,
                   exporterVars, gathers, reader>>

(***************************************************************************)
(* The scheduler loop of NewBeamer.                                        *)
(***************************************************************************)
\* A send that would also go through on a full channel (one slot too many).
SlotFreeOnFull == running <= MaxConcurrent

\* `case running <- struct{}{}` is ready when the channel is not full.
SlotFree == running < MaxConcurrent

\* case <-ticker.C, case running <- struct{}{}, go func() {...}()
SchedDispatch ==
    /\ ~crashed
    /\ schedPc = "select"
    /\ ~quickStart
    /\ ticks < MaxTicks
    /\ SlotFree
    /\ ticks' = ticks + 1
    /\ running' = running + 1
    /\ tasks' = [tasks EXCEPT ![Dispatched + 1] = [IdleTask EXCEPT !.pc = "start"]]
    /\ schedPc' = "count"
    /\ UNCHANGED <<sideVars, mapVars, variant, crashed, i, quickStart, counterVars, bmutex,
                   exporterVars, gathers, reader>>

\* A default case that also moves the cursor on.
SchedSkipAdvances ==
    /\ ~crashed
    /\ schedPc = "select"
    /\ ~quickStart
    /\ ticks < MaxTicks
    /\ ~SlotFree
    /\ ticks' = ticks + 1
    /\ i' = (i + 1) % NExporters
    /\ IF variant = Prometheus
       THEN /\ scrapeSkiped' = scrapeSkiped + 1
            /\ schedPc' = schedPc
       ELSE /\ scrapeSkiped' = scrapeSkiped
            /\ schedPc' = "skip"
    /\ UNCHANGED <<sideVars, mapVars, variant, crashed, running, quickStart,
                   scrapeCounter, scrapeFailures, parseFailures, bmutex, tasks,
                   exporterVars, gathers, reader>>

\* A send on `running` without a default case: on a full channel the loop
\* stays in the send until a task gives a slot back.
SchedWaitForSlot ==
    /\ ~SlotFree
    /\ SchedDispatch

\* case <-ticker.C, default: (prometheus) scrapeSkiped.Inc()
\*                           (sensision) the increment waits for b.mutex
SchedSkip ==
    /\ ~crashed
    /\ schedPc = "select"
    /\ ~quickStart
    /\ ticks < MaxTicks
    /\ ~SlotFree
    /\ ticks' = ticks + 1
    /\ IF variant = Prometheus
       THEN /\ scrapeSkiped' = scrapeSkiped + 1
            /\ schedPc' = schedPc
       ELSE /\ scrapeSkiped' = scrapeSkiped
            /\ schedPc' = "skip"
    /\ UNCHANGED <<sideVars, mapVars, variant, crashed, i, running, quickStart, scrapeCounter,
                   scrapeFailures, parseFailures, bmutex, tasks, exporterVars,
                   gathers, reader>>

\* b.mutex.Lock(); b.scrapeSkiped++
SchedSkipLock ==
    /\ ~crashed
    /\ schedPc = "skip"
    /\ bmutex = 0
    /\ bmutex' = -1
    /\ scrapeSkiped' = scrapeSkiped + 1
    /\ schedPc' = "skipUnlock"
    /\ UNCHANGED <<sideVars, mapVars, variant, crashed, i, running, ticks, quickStart,
                   scrapeCounter, scrapeFailures, parseFailures, tasks,
                   exporterVars, gathers, reader>>

\* b.mutex.Unlock()
SchedSkipUnlock ==
    /\ ~crashed
    /\ schedPc = "skipUnlock"
    /\ bmutex' = 0
    /\ schedPc' = "select"
    /\ UNCHANGED <<sideVars, mapVars, variant, crashed, i, running, ticks, quickStart,
                   counterVars, tasks, exporterVars, gathers, reader>>

\* A loop that moves the cursor and forgets to count the attempt.
SchedCountForgotten ==
    /\ ~crashed
    /\ schedPc = "count"
    /\ i' = i + 1
    /\ schedPc' = "wrap"
    /\ UNCHANGED <<sideVars, mapVars, variant, crashed, running, ticks, quickStart,
                   counterVars, bmutex, tasks, exporterVars, gathers, reader>>

\* b.scrapeCounter++ / scrapeCounter.Inc(); i++
\* (only the loop writes the two, and no goroutine of the model reads both)
SchedCount ==
    /\ ~crashed
    /\ schedPc = "count"
    /\ scrapeCounter' = scrapeCounter + 1
    /\ i' = i + 1
    /\ schedPc' = "wrap"
    /\ UNCHANGED <<sideVars, mapVars, variant, crashed, running, ticks, quickStart,
                   scrapeSkiped, scrapeFailures, parseFailures, bmutex, tasks,
                   exporterVars, gathers, reader>>

\* if i >= len(exporters) { i = 0 }
SchedWrap ==
    /\ ~crashed
    /\ schedPc = "wrap"
    /\ i' = IF i >= NExporters THEN 0 ELSE i
    /\ schedPc' = "select"
    /\ UNCHANGED <<sideVars, mapVars, variant, crashed, running, ticks, quickStart, counterVars,
                   bmutex, tasks, exporterVars, gathers, reader>>

\* case <-quickStart: (an empty case body).  NewBeamer sends the value right
\* after it starts the loop and blocks until the loop takes it; the ticker
\* fires one interval later.  The model takes the receive before the first
\* tick: the order of the two changes no other variable than quickStart.
SchedQuickStart ==
    /\ ~crashed
    /\ schedPc = "select"
    /\ quickStart
    /\ quickStart' = FALSE
    /\ UNCHANGED <<sideVars, mapVars, variant, crashed, schedPc, i, running, ticks, counterVars,
                   bmutex, tasks, exporterVars, gathers, reader>>

(***************************************************************************)
(* The scrape goroutine started by the loop, and Exporter.Scrape().        *)
(***************************************************************************)
\* e := exporters[i]: the closure reads the shared cursor when it runs; an
\* index equal to len(exporters) panics, and nothing recovers the panic.
TaskStart(t) ==
    /\ ~crashed
    /\ tasks[t].pc = "start"
    /\ IF i < NExporters
       THEN /\ tasks' = [tasks EXCEPT ![t].pc = "fetch", ![t].e = i,
                                      ![t].pre = Published(i)]
            /\ crashed' = crashed
       ELSE /\ crashed' = TRUE
            /\ tasks' = tasks
    /\ UNCHANGED <<sideVars, mapVars, variant, schedVars, counterVars, bmutex, exporterVars,
                   gathers, reader>>

\* body, err := e.fetch() returns, after any delay, with or without an
\* error (the time a task spends between the return of fetch and the lock of
\* clear() counts as fetch time: nothing of it is shared);
\* e.clear(): under the write lock, (sensision) e.sensision.Reset(),
\* (prometheus) m.Reset() for every GaugeVec.
\* A clear() that resets the buffer of every exporter.
ClearEverySensision(bufs, e) == [x \in Exporters |-> BufReset(bufs[x])]

ClearSensision(bufs, e) == [bufs EXCEPT ![e] = BufReset(bufs[e])]

ClearGauges(gs, e) == [gs EXCEPT ![e] = NoGauges]

TaskClear(t) ==
    /\ ~crashed
    /\ tasks[t].pc = "fetch"
    /\ emutex[tasks[t].e] = 0
    /\ IF variant = Sensision
       THEN /\ sensision' = ClearSensision(sensision, tasks[t].e)
            /\ gauges' = gauges
       ELSE /\ gauges' = ClearGauges(gauges, tasks[t].e)
            /\ sensision' = sensision
    /\ \E ok \in BOOLEAN :
          tasks' = [tasks EXCEPT ![t].pc = "cleared", ![t].fetchOk = ok]
    /\ UNCHANGED <<sideVars, mapVars, variant, crashed, schedVars, counterVars, bmutex, emutex,
                   prometheus, gathers, reader>>

\* The value Scrape() returns on a fetch error: false (coded -1) / -1.
FetchErrorResult == -1

\* if err != nil { return false } / { return -1 }
TaskReturnErr(t) ==
    /\ ~crashed
    /\ tasks[t].pc = "cleared"
    /\ ~tasks[t].fetchOk
    /\ tasks' = [tasks EXCEPT ![t].pc = "report", ![t].res = FetchErrorResult]
    /\ UNCHANGED <<sideVars, mapVars, variant, crashed, schedVars, counterVars, bmutex,
                   exporterVars, gathers, reader>>

\* e.mutex.Lock(); defer e.mutex.Unlock()
TaskLock(t) ==
    /\ ~crashed
    /\ tasks[t].pc = "cleared"
    /\ tasks[t].fetchOk
    /\ emutex[tasks[t].e] = 0
    /\ emutex' = [emutex EXCEPT ![tasks[t].e] = t]
    /\ tasks' = [tasks EXCEPT ![t].pc = "parse"]
    /\ UNCHANGED <<sideVars, mapVars, variant, crashed, schedVars, counterVars, bmutex,
                   sensision, gauges, prometheus, gathers, reader>>

\* One metric field of the report that yields a sample:
\* (sensision) e.sensision.WriteString(gts)
\* (prometheus) metric.WithLabelValues(labels...).Set(float64(value))
TaskField(t) ==
    /\ ~crashed
    /\ tasks[t].pc = "parse"
    /\ tasks[t].k < SamplesPerScrape
    /\ LET e == tasks[t].e
           tok == <<t, tasks[t].k + 1>>
       IN /\ IF variant = Sensision
             THEN /\ sensision' = [sensision EXCEPT ![e] = BufWrite(sensision[e], tok)]
                  /\ reader' = ReaderAfterWrite(reader, e, sensision[e], tok)
                  /\ gauges' = gauges
             ELSE /\ gauges' = [gauges EXCEPT ![e][tasks[t].k + 1] = t]
                  /\ sensision' = sensision
                  /\ reader' = reader
          /\ tasks' = [tasks EXCEPT ![t].k = @ + 1]
    /\ UNCHANGED <<sideVars, mapVars, variant, crashed, schedVars, counterVars, bmutex, emutex,
                   prometheus, gathers>>

\* (prometheus) a csv.ParseError, a row shorter than minCsvFieldCount or a
\* field strconv.ParseInt rejects: parseFailures++ and the loop goes on.
TaskFieldFail(t) ==
    /\ ~crashed
    /\ variant = Prometheus
    /\ tasks[t].pc = "parse"
    /\ tasks[t].k < SamplesPerScrape
    /\ tasks' = [tasks EXCEPT ![t].k = @ + 1, ![t].fails = @ + 1]
    /\ UNCHANGED <<sideVars, mapVars, variant, crashed, schedVars, counterVars, bmutex,
                   exporterVars, gathers, reader>>

\* The end of the report: (sensision) return true, coded 0;
\* (prometheus) go func() { gather ... }(); return parseFailures.
\* The deferred e.mutex.Unlock() runs on return.
TaskEof(t) ==
    /\ ~crashed
    /\ tasks[t].pc = "parse"
    /\ tasks[t].k = SamplesPerScrape
    /\ emutex' = [emutex EXCEPT ![tasks[t].e] = 0]
    /\ IF variant = Sensision
       THEN /\ tasks' = [tasks EXCEPT ![t].pc = "report", ![t].res = 0]
            /\ gathers' = gathers
       ELSE /\ tasks' = [tasks EXCEPT ![t].pc = "report", ![t].res = tasks[t].fails]
            /\ gathers' = [gathers EXCEPT ![t] =
                              [pc |-> "gather", e |-> tasks[t].e, mfs |-> <<>>]]
    /\ UNCHANGED <<sideVars, mapVars, variant, crashed, schedVars, counterVars, bmutex,
                   sensision, gauges, prometheus, reader>>

\* The value Scrape() returns when the stream breaks while it is read:
\* (sensision) r.Err() is printed and Scrape() returns true, coded 0;
\* (prometheus) return -1.
StreamErrorResult == IF variant = Sensision THEN 0 ELSE -1

\* The underlying read fails before the end of the report.
TaskStreamErr(t) ==
    /\ ~crashed
    /\ tasks[t].pc = "parse"
    /\ tasks[t].k < SamplesPerScrape
    /\ emutex' = [emutex EXCEPT ![tasks[t].e] = 0]
    /\ tasks' = [tasks EXCEPT ![t].pc = "report", ![t].broke = TRUE,
                              ![t].res = StreamErrorResult]
    /\ UNCHANGED <<sideVars, mapVars, variant, crashed, schedVars, counterVars, bmutex,
                   sensision, gauges, prometheus, gathers, reader>>

\* (prometheus) a row of 52..61 fields passes the length check and
\* csvRow[fieldIdx] then indexes past its end: the goroutine panics.
TaskPanic(t) ==
    /\ ~crashed
    /\ variant = Prometheus
    /\ tasks[t].pc = "parse"
    /\ tasks[t].k < SamplesPerScrape
    /\ crashed' = TRUE
    /\ UNCHANGED <<sideVars, mapVars, variant, schedVars, counterVars, bmutex, tasks,
                   exporterVars, gathers, reader>>

\* A count of the failures in a row: a scrape that succeeds resets it.
FailuresInARow(res) == IF res < 0 THEN scrapeFailures + 1 ELSE 0

\* The counters after a scrape that returned res:
\* (sensision) if !success { b.scrapeFailures++ }
\* (prometheus) res > 0: parseFailures.Add(res); res < 0: scrapeFailures.Inc()
FailuresAfter(res) == IF res < 0 THEN scrapeFailures + 1 ELSE scrapeFailures

ParseFailuresAfter(res) == IF res > 0 THEN parseFailures + res ELSE parseFailures

TaskReport(t) ==
    /\ ~crashed
    /\ tasks[t].pc = "report"
    /\ IF variant = Sensision
       THEN /\ bmutex = 0
            /\ bmutex' = t
            /\ scrapeFailures' = FailuresAfter(tasks[t].res)
            /\ parseFailures' = parseFailures
            /\ tasks' = [tasks EXCEPT ![t].pc = "unlockB"]
       ELSE /\ bmutex' = bmutex
            /\ scrapeFailures' = FailuresAfter(tasks[t].res)
            /\ parseFailures' = ParseFailuresAfter(tasks[t].res)
            /\ tasks' = [tasks EXCEPT ![t].pc = "release"]
    /\ UNCHANGED <<sideVars, mapVars, variant, crashed, schedVars, scrapeCounter, scrapeSkiped,
                   exporterVars, gathers, reader>>

\* b.mutex.Unlock()
TaskUnlockB(t) ==
    /\ ~crashed
    /\ tasks[t].pc = "unlockB"
    /\ bmutex' = 0
    /\ tasks' = [tasks EXCEPT ![t].pc = "release"]
    /\ UNCHANGED <<sideVars, mapVars, variant, crashed, schedVars, counterVars, exporterVars,
                   gathers, reader>>

\* A task that gives its slot back only after a scrape that did not fail.
TaskReleaseOnSuccess(t) ==
    /\ ~crashed
    /\ tasks[t].pc = "release"
    /\ running' = IF tasks[t].res < 0 THEN running ELSE running - 1
    /\ tasks' = [tasks EXCEPT ![t] = DoneTask]
    /\ UNCHANGED <<sideVars, mapVars, variant, crashed, schedPc, i, ticks, quickStart,
                   counterVars, bmutex, exporterVars, gathers, reader>>

\* defer func() { <-running }()
TaskRelease(t) ==
    /\ ~crashed
    /\ tasks[t].pc = "release"
    /\ running' = running - 1
    /\ tasks' = [tasks EXCEPT ![t] = DoneTask]
    /\ UNCHANGED <<sideVars, mapVars, variant, crashed, schedPc, i, ticks, quickStart,
                   counterVars, bmutex, exporterVars, gathers, reader>>

(***************************************************************************)
(* (prometheus) the goroutine started at the end of Scrape().              *)
(***************************************************************************)
\* mfs, err := e.registry.Gather(): Collect() reads the GaugeVecs under the
\* read lock.
GatherCollect(g) ==
    /\ ~crashed
    /\ gathers[g].pc = "gather"
    /\ emutex[gathers[g].e] = 0
    /\ gathers' = [gathers EXCEPT ![g].pc = "encode",
                                  ![g].mfs = Render(gauges[gathers[g].e])]
    /\ UNCHANGED <<sideVars, mapVars, variant, crashed, schedVars, counterVars, bmutex, tasks,
                   exporterVars, reader>>

\* e.mutex.Lock(); e.prometheus.Reset(); enc.Encode(mf) for every family
GatherPublish(g) ==
    /\ ~crashed
    /\ gathers[g].pc = "encode"
    /\ emutex[gathers[g].e] = 0
    /\ LET e == gathers[g].e
           w == WriteAll(BufReset(prometheus[e]), reader, e, gathers[g].mfs)
       IN /\ prometheus' = [prometheus EXCEPT ![e] = w.b]
          /\ reader' = w.r
    /\ gathers' = [gathers EXCEPT ![g] = IdleGather]
    /\ UNCHANGED <<sideVars, mapVars, variant, crashed, schedVars, counterVars, bmutex, tasks,
                   emutex, sensision, gauges>>

(***************************************************************************)
(* A caller of Exporter.Metrics(): the /metrics handler or the flush loop. *)
(***************************************************************************)
\* e.mutex.RLock(); defer e.mutex.RUnlock(); return bytes.NewBuffer(...Bytes())
Metrics(e) ==
    /\ ~crashed
    /\ reader.pc = "idle"
    /\ emutex[e] = 0
    /\ reader' = [pc |-> "reading", e |-> e, snap |-> Published(e),
                  view |-> Published(e), alias |-> TRUE, ov |-> InScrape(e)]
    /\ UNCHANGED <<sideVars, mapVars, variant, crashed, schedVars, counterVars, bmutex, tasks,
                   exporterVars, gathers>>

\* w.Write(...Bytes()) / file.Write(...Bytes()) has copied the bytes out.
ReaderDone ==
    /\ ~crashed
    /\ reader.pc = "reading"
    /\ reader' = DoneReader
    /\ UNCHANGED <<sideVars, mapVars, variant, crashed, schedVars, counterVars, bmutex, tasks,
                   exporterVars, gathers>>

(***************************************************************************)
(* The /metrics handler: the Beamer's counters, then every exporter's      *)
(* published result, in the order of the configuration.                    *)
(***************************************************************************)
\* A request arrives.
HandlerRequest ==
    /\ ~crashed
    /\ handler = NoRequest
    /\ handler' = AtBeamer
    /\ UNCHANGED <<tickerVars, allow, flushVars, reportVars, mapVars, variant, crashed,
                   schedVars, counterVars, bmutex, tasks, exporterVars,
                   gathers, reader>>

\* w.Write(b.Metrics().Bytes()): Beamer.Metrics() takes the read lock.
HandlerBeamer ==
    /\ ~crashed
    /\ handler = AtBeamer
    /\ bmutex = 0
    /\ handler' = 0
    /\ UNCHANGED <<tickerVars, allow, flushVars, reportVars, mapVars, variant, crashed,
                   schedVars, counterVars, bmutex, tasks, exporterVars,
                   gathers, reader>>

\* for _, e := range exporters { w.Write(e.Metrics().Bytes()) }:
\* Exporter.Metrics() takes the read lock of e.
HandlerExporter ==
    /\ ~crashed
    /\ handler \in Exporters
    /\ emutex[handler] = 0
    /\ handler' = handler + 1
    /\ UNCHANGED <<tickerVars, allow, flushVars, reportVars, mapVars, variant, crashed,
                   schedVars, counterVars, bmutex, tasks, exporterVars,
                   gathers, reader>>

(***************************************************************************)
(* The flush routine: on every tick of its ticker it writes the rendering  *)
(* to <path>.tmp and renames the file to <path>.metrics.  The content of a *)
(* file is the sequence of the parts written to it: AtBeamer for the       *)
(* Beamer's counters, e for the published result of exporter e.  No error  *)
(* of Create, Write, Close or Rename stops the routine.                    *)
(***************************************************************************)
\* case <-ticker.C: path := flushPath + time.Now().Unix()
FlushTick ==
    /\ ~crashed
    /\ flush.pc = "wait"
    /\ flush.n < MaxFlushes
    /\ flush' = [flush EXCEPT !.pc = "create", !.n = @ + 1]
    /\ UNCHANGED <<tickerVars, allow, handler, files, reportVars, mapVars, variant,
                   crashed, schedVars, counterVars, bmutex, tasks,
                   exporterVars, gathers, reader>>

\* file, err := os.Create(path + ".tmp"): on an error, which is only
\* logged, there is no file and `file` is nil.
FlushCreate ==
    /\ ~crashed
    /\ flush.pc = "create"
    /\ \E ok \in BOOLEAN :
          flush' = [flush EXCEPT !.pc = "write", !.k = AtBeamer, !.open = ok,
                                 !.tmp = <<>>]
    /\ UNCHANGED <<tickerVars, allow, handler, files, reportVars, mapVars, variant,
                   crashed, schedVars, counterVars, bmutex, tasks,
                   exporterVars, gathers, reader>>

\* file.Write(b.Metrics().Bytes()), then file.Write(e.Metrics().Bytes())
\* for every exporter: Metrics() takes the read lock; the result of Write
\* is dropped (a write on a nil file or a failed write adds nothing).
FlushWrite ==
    /\ ~crashed
    /\ flush.pc = "write"
    /\ flush.k < NExporters
    /\ IF flush.k = AtBeamer THEN bmutex = 0 ELSE emutex[flush.k] = 0
    /\ \E ok \in BOOLEAN :
          flush' = [flush EXCEPT !.k = @ + 1,
                                 !.tmp = IF flush.open /\ ok
                                         THEN Append(@, flush.k)
                                         ELSE @]
    /\ UNCHANGED <<tickerVars, allow, handler, files, reportVars, mapVars, variant,
                   crashed, schedVars, counterVars, bmutex, tasks,
                   exporterVars, gathers, reader>>

\* file.Close()
FlushClose ==
    /\ ~crashed
    /\ flush.pc = "write"
    /\ flush.k = NExporters
    /\ flush' = [flush EXCEPT !.pc = "rename"]
    /\ UNCHANGED <<tickerVars, allow, handler, files, reportVars, mapVars, variant,
                   crashed, schedVars, counterVars, bmutex, tasks,
                   exporterVars, gathers, reader>>

\* os.Rename(path+".tmp", path+".metrics"): the '.tmp' file, if there is
\* one and the rename works, becomes visible under the '.metrics' name.
FlushRename ==
    /\ ~crashed
    /\ flush.pc = "rename"
    /\ \E ok \in BOOLEAN :
          files' = IF flush.open /\ ok THEN Append(files, flush.tmp) ELSE files
    /\ flush' = [IdleFlush EXCEPT !.n = flush.n]
    /\ UNCHANGED <<tickerVars, allow, handler, reportVars, mapVars, variant, crashed,
                   schedVars, counterVars, bmutex, tasks, exporterVars,
                   gathers, reader>>

(***************************************************************************)
(* The row mapper: what Scrape() does with one record of the report.       *)
(***************************************************************************)
\* (sensision) switch *valueStr for the status field: the emitted text.
SensisionStatus(valueStr) ==
    IF valueStr \in {"UP", "UP 1/3", "UP 2/3", "OPEN", "no check"}
    THEN "1"
    ELSE "0"

\* A type switch that labels a listener by its code.
SensisionTypeListenerCode(code) ==
    CASE code = "0" -> "frontend"
      [] code = "1" -> "backend"
      [] code = "2" -> "server"
      [] OTHER -> ""

\* (sensision) switch *values[32]: t stays "" when no case matches.
SensisionType(code) ==
    CASE code = "0" -> "frontend"
      [] code = "1" -> "backend"
      [] code = "2" -> "server"
      [] code = "3" -> "listen"
      [] OTHER -> ""

\* The lists of metrics a configuration can give (viper "metrics").
AllowLists == SUBSET {MetricName(c) : c \in MetricColumns}

\* A filter that keeps every entry of the table, whatever the list.
UnfilteredColumns(al) == MetricColumns

\* (sensision) NewExporter: with a list, the entries of e.metrics whose name
\* is not in it are deleted.
FilteredColumns(al) ==
    IF al = {}
    THEN MetricColumns
    ELSE {c \in MetricColumns : MetricName(c) \in al}

\* (sensision) the slots Scrape() allocates: the entries of e.metrics and
\* the label columns (0, 1 and 32; the model keeps 32).
AllocatedSlots(al) == FilteredColumns(al) \cup {TypeColumn}

\* (sensision) r.Value(values[i]) for every field the record has: a slot of
\* a column the record lacks keeps what an earlier record left in it.
ScanValues(vs, r) ==
    [c \in SlotColumns |->
        IF c \in AllocatedSlots(allow) /\ c < r.n THEN Field(r, c) ELSE vs[c]]

\* (sensision) for fieldIdx := range e.metrics { ... WriteString(gts) }
SensisionSamples(vs) ==
    {[name |-> MetricName(c),
      type |-> SensisionType(vs[TypeColumn]),
      value |-> IF c = StatusColumn THEN SensisionStatus(vs[c]) ELSE vs[c]] :
        c \in {d \in FilteredColumns(allow) : vs[d] # ""}}

\* (sensision) one record through the r.Scan() loop.
ScanRecord(r) ==
    /\ ~crashed
    /\ variant = Sensision
    /\ row' = r
    /\ values' = ScanValues(values, r)
    /\ out' = SensisionSamples(ScanValues(values, r))
    /\ UNCHANGED <<sideVars, variant, crashed, schedVars, counterVars, bmutex,
                   tasks, exporterVars, gathers, reader, rowFailures>>

\* strconv.ParseInt(valueStr, 10, 64) and the text the encoder writes for
\* float64(value), over the one-digit numerals.
Digits == <<"0", "1", "2", "3", "4", "5", "6", "7", "8", "9">>

ParseOk(valueStr) == \E d \in 1 .. Len(Digits) : Digits[d] = valueStr

ParseInt(valueStr) == (CHOOSE d \in 1 .. Len(Digits) : Digits[d] = valueStr) - 1

FormatValue(v) == Digits[v + 1]

\* (prometheus) the status switch of exportCsvFields and the assignment
\* `value = 0` that follows it.
PrometheusStatus(valueStr) ==
    LET switched == IF valueStr \in {"UP", "UP 1/3", "UP 2/3", "OPEN", "no check"}
                    THEN 1
                    ELSE 0
    IN 0

\* (prometheus) the columns of e.metrics whose gauge exportCsvFields sets,
\* and those strconv.ParseInt rejects.
ExportedColumns(r) ==
    {c \in MetricColumns :
        /\ Field(r, c) # ""
        /\ (c # StatusColumn => ParseOk(Field(r, c)))}

RejectedColumns(r) ==
    {c \in MetricColumns :
        /\ Field(r, c) # ""
        /\ c # StatusColumn
        /\ ~ParseOk(Field(r, c))}

\* (prometheus) metric.WithLabelValues(pxname, svname, type_).Set(...)
\* with type_ := row[32].
ExportCsvFields(r) ==
    {[name |-> MetricName(c),
      type |-> Field(r, TypeColumn),
      value |-> FormatValue(IF c = StatusColumn
                            THEN PrometheusStatus(Field(r, c))
                            ELSE ParseInt(Field(r, c)))] :
        c \in ExportedColumns(r)}

\* (prometheus) one record through the reader.Read() loop: a record shorter
\* than minCsvFieldCount is counted and dropped; csvRow[fieldIdx] panics on
\* a longer record that lacks a column of e.metrics.
ReadRow(r) ==
    /\ ~crashed
    /\ variant = Prometheus
    /\ row' = r
    /\ IF r.n < minCsvFieldCount
       THEN /\ out' = {}
            /\ rowFailures' = 1
            /\ crashed' = crashed
       ELSE IF \E c \in MetricColumns : c >= r.n
       THEN /\ out' = {}
            /\ rowFailures' = 0
            /\ crashed' = TRUE
       ELSE /\ out' = ExportCsvFields(r)
            /\ rowFailures' = Cardinality(RejectedColumns(r))
            /\ crashed' = crashed
    /\ UNCHANGED <<sideVars, variant, schedVars, counterVars, bmutex, tasks,
                   exporterVars, gathers, reader, values>>

(***************************************************************************)
(* Two scrapes in succession of one exporter, fed the same report.  The    *)
(* store is what the scrape has produced: (sensision) the samples written  *)
(* to e.sensision and the number of lines written, (prometheus) the        *)
(* children of the GaugeVecs.                                              *)
(***************************************************************************)
\* The records the reports of the model are made of.
ReportRows ==
    {r \in Rows : r.status \in {"UP", "MAINT", ""} /\ r.type \in {"1", "3", ""}}

Reports == UNION {[1 .. n -> ReportRows] : n \in 1 .. MaxRows}

\* Value slots that outlive the scrape that filled them.
KeepValues(vs) == vs

\* values := make([]*string, rowLength) at every Scrape().
AllocValues(vs) == EmptyValues

\* metric.WithLabelValues(labels...).Set(v): the child of the same name and
\* labels, if there is one, is overwritten.
SetGauges(gs, smps) ==
    {g \in gs : \A n \in smps : ~(n.name = g.name /\ n.type = g.type)}
    \cup smps

\* e.sensision.WriteString(gts) for every sample of the record.
WriteLines(st, smps) ==
    [samples |-> st.samples \cup smps, lines |-> st.lines + Cardinality(smps)]

\* e.fetch(); e.clear(); the value slots of this Scrape().
ScrapeBegin ==
    /\ ~crashed
    /\ scan.pc = "begin"
    /\ Len(report) > 0
    /\ store' = EmptyStore
    /\ values' = AllocValues(values)
    /\ scan' = [scan EXCEPT !.pc = "rows", !.pos = 0]
    /\ UNCHANGED <<tickerVars, allow, handler, flushVars, report, first, row, out,
                   rowFailures, variant, crashed, schedVars, counterVars,
                   bmutex, tasks, exporterVars, gathers, reader>>

\* The next record of the report, as ScanRecord / ReadRow treat it.
ScrapeRow ==
    /\ ~crashed
    /\ scan.pc = "rows"
    /\ scan.pos < Len(report)
    /\ LET r == report[scan.pos + 1]
       IN /\ row' = r
          /\ IF variant = Sensision
             THEN /\ values' = ScanValues(values, r)
                  /\ out' = SensisionSamples(ScanValues(values, r))
                  /\ store' = WriteLines(store, out')
                  /\ rowFailures' = rowFailures
                  /\ crashed' = crashed
             ELSE /\ values' = values
                  /\ IF r.n < minCsvFieldCount
                     THEN /\ out' = {}
                          /\ rowFailures' = 1
                          /\ crashed' = crashed
                     ELSE IF \E c \in MetricColumns : c >= r.n
                     THEN /\ out' = {}
                          /\ rowFailures' = 0
                          /\ crashed' = TRUE
                     ELSE /\ out' = ExportCsvFields(r)
                          /\ rowFailures' = Cardinality(RejectedColumns(r))
                          /\ crashed' = crashed
                  /\ store' = [samples |-> SetGauges(store.samples, out'),
                               lines |-> 0]
    /\ scan' = [scan EXCEPT !.pos = @ + 1]
    /\ UNCHANGED <<tickerVars, allow, handler, flushVars, report, first, variant,
                   schedVars, counterVars, bmutex, tasks, exporterVars,
                   gathers, reader>>

\* The end of the report: Scrape() returns; the same report is then
\* scraped once more.
ScrapeEnd ==
    /\ ~crashed
    /\ scan.pc = "rows"
    /\ scan.pos = Len(report)
    /\ IF scan.pass = 1
       THEN /\ first' = store
            /\ scan' = [pc |-> "begin", pass |-> 2, pos |-> 0]
       ELSE /\ first' = first
            /\ scan' = [scan EXCEPT !.pc = "done"]
    /\ UNCHANGED <<tickerVars, allow, handler, flushVars, report, store, mapVars,
                   variant, crashed, schedVars, counterVars, bmutex, tasks,
                   exporterVars, gathers, reader>>

\* Both variants.
Next ==
    \/ SchedDispatch
    \/ SchedSkip
    \/ SchedSkipLock
    \/ SchedSkipUnlock
    \/ SchedCount
    \/ SchedWrap
    \/ SchedQuickStart
    \/ \E t \in TaskIds :
          \/ TaskStart(t)
          \/ TaskClear(t)
          \/ TaskReturnErr(t)
          \/ TaskLock(t)
          \/ TaskField(t)
          \/ TaskFieldFail(t)
          \/ TaskEof(t)
          \/ TaskStreamErr(t)
          \/ TaskPanic(t)
          \/ TaskReport(t)
          \/ TaskUnlockB(t)
          \/ TaskRelease(t)
          \/ GatherCollect(t)
          \/ GatherPublish(t)

Spec == Init /\ [][Next]_vars

\* The steps of the loop goroutine, of the goroutine of dispatch t, and of
\* the gather goroutine a Scrape() of task t starts.
LoopStep ==
    \/ SchedDispatch
    \/ SchedSkip
    \/ SchedSkipLock
    \/ SchedSkipUnlock
    \/ SchedCount
    \/ SchedWrap
    \/ SchedQuickStart

TaskStep(t) ==
    \/ TaskStart(t)
    \/ TaskClear(t)
    \/ TaskReturnErr(t)
    \/ TaskLock(t)
    \/ TaskField(t)
    \/ TaskEof(t)
    \/ TaskReport(t)
    \/ TaskUnlockB(t)
    \/ TaskRelease(t)

GatherStep(t) ==
    \/ GatherCollect(t)
    \/ GatherPublish(t)

\* The process does not stand still while a goroutine can take a step: the
\* ticker fires as long as there are ticks, the Go scheduler runs every
\* goroutine that can run, and every fetch returns (e.fetch() has a timeout
\* and a deadline).  The ticks of the model are finitely many, so no
\* goroutine can be passed over for ever.
Fairness == WF_vars(LoopStep \/ \E t \in TaskIds : TaskStep(t) \/ GatherStep(t))

SpecFair == Init /\ [][Next]_vars /\ Fairness

\* The sensision variant alone.
NextSensision ==
    \/ SchedDispatch
    \/ SchedSkip
    \/ SchedSkipLock
    \/ SchedSkipUnlock
    \/ SchedCount
    \/ SchedWrap
    \/ \E t \in TaskIds :
          \/ TaskStart(t)
          \/ TaskClear(t)
          \/ TaskReturnErr(t)
          \/ TaskLock(t)
          \/ TaskField(t)
          \/ TaskEof(t)
          \/ TaskStreamErr(t)
          \/ TaskReport(t)
          \/ TaskUnlockB(t)
          \/ TaskRelease(t)

InitSensision == Init /\ variant = Sensision

SpecSensision == InitSensision /\ [][NextSensision]_vars

\* The prometheus variant alone.
NextPrometheus ==
    \/ SchedDispatch
    \/ SchedSkip
    \/ SchedCount
    \/ SchedWrap
    \/ SchedQuickStart
    \/ \E t \in TaskIds :
          \/ TaskStart(t)
          \/ TaskClear(t)
          \/ TaskReturnErr(t)
          \/ TaskLock(t)
          \/ TaskField(t)
          \/ TaskFieldFail(t)
          \/ TaskEof(t)
          \/ TaskStreamErr(t)
          \/ TaskPanic(t)
          \/ TaskReport(t)
          \/ TaskRelease(t)
          \/ GatherCollect(t)
          \/ GatherPublish(t)

InitPrometheus == Init /\ variant = Prometheus

SpecPrometheus == InitPrometheus /\ [][NextPrometheus]_vars

\* The sensision variant with a caller of Exporter.Metrics().
NextReader ==
    \/ NextSensision
    \/ \E e \in Exporters : Metrics(e)
    \/ ReaderDone

SpecReader == InitSensision /\ [][NextReader]_vars

\* The sensision variant with a request to the /metrics handler.
NextHandler ==
    \/ NextSensision
    \/ HandlerRequest
    \/ HandlerBeamer
    \/ HandlerExporter

SpecHandler == InitSensision /\ [][NextHandler]_vars

\* The flush routine on its own.
NextFlush ==
    \/ FlushTick
    \/ FlushCreate
    \/ FlushWrite
    \/ FlushClose
    \/ FlushRename

SpecFlush == Init /\ [][NextFlush]_vars

\* One exporter scraping a report twice.
NextReport ==
    \/ ScrapeBegin
    \/ ScrapeRow
    \/ ScrapeEnd

InitReport ==
    /\ InitBase
    /\ DefaultCycle
    /\ allow = {}
    /\ report \in Reports

SpecReport == InitReport /\ [][NextReport]_vars

\* NewBeamer creating its ticker, for every cycle duration and every number
\* of sources up to the bounds.
NextTicker == NewTicker

InitTicker ==
    /\ InitBase
    /\ allow = {}
    /\ report = <<>>
    /\ duration \in 0 .. MaxDuration
    /\ sources \in 1 .. MaxSources

SpecTicker == InitTicker /\ [][NextTicker]_vars

\* The row mapper of both variants, fed one record after another.
NextMap ==
    \E r \in Rows :
       \/ ScanRecord(r)
       \/ ReadRow(r)

\* Any list of metrics for the sensision variant; the prometheus
\* NewExporter takes none.
InitMap ==
    /\ InitBase
    /\ DefaultCycle
    /\ allow \in IF variant = Sensision THEN AllowLists ELSE {{}}
    /\ report = <<>>

SpecMap == InitMap /\ [][NextMap]_vars

(***************************************************************************)
(* The properties checked against the model.                               *)
(***************************************************************************)

\* C1 (concurrency ceiling): in every reachable state the number of scrape
\* tasks that have claimed a slot of `running` and not yet released it is at
\* most MaxConcurrent, and equals the number of tokens in the channel.
ConcurrencyCeiling ==
    /\ Cardinality(InFlight) <= MaxConcurrent
    /\ running = Cardinality(InFlight)

\* The ceiling is reached and a tick found the channel full.
CeilingReached == Cardinality(InFlight) = MaxConcurrent /\ scrapeSkiped > 0

\* The ticks whose case body has done its counting: a tick the loop has
\* just received is counted by the next step of the loop.
TicksAccounted == IF schedPc \in {"count", "skip"} THEN ticks - 1 ELSE ticks

\* C2 (tick accounting): every tick the loop processes increments exactly one
\* of scrapeCounter and scrapeSkiped, by exactly one: no step changes both or
\* changes one by more than one, and after every step the two add up to the
\* number of ticks processed.
TickAccounting ==
    [][/\ scrapeCounter' - scrapeCounter \in {0, 1}
       /\ scrapeSkiped' - scrapeSkiped \in {0, 1}
       /\ ~(scrapeCounter' # scrapeCounter /\ scrapeSkiped' # scrapeSkiped)
       /\ scrapeCounter' + scrapeSkiped' = TicksAccounted']_vars

\* All the ticks are processed, some attempted and some skipped.
TicksOfBothKinds ==
    /\ schedPc = "select"
    /\ ticks = MaxTicks
    /\ scrapeCounter > 0
    /\ scrapeSkiped > 0

\* Every task inside Scrape() works on the exporter the cursor pointed at
\* when the task was dispatched (the cursor moves only on a dispatch).
CursorRespected ==
    \A t \in TaskIds :
        tasks[t].pc \in ScrapePcs => tasks[t].e = (t - 1) % NExporters

\* C3 (single flight per exporter): for every exporter at most one Scrape()
\* of it is in progress (between the entry to fetch and the return), also
\* when every task scrapes the exporter it was dispatched for.
SingleFlight ==
    CursorRespected => \A e \in Exporters : Cardinality(InScrape(e)) <= 1

\* The complete result of scrape s: one sample per field, all of s.
NewResult(s) == [j \in Fields |-> <<s, j>>]

\* C4 (reader atomicity): a Metrics() call made while Scrape() s of the same
\* exporter was in progress, s fetching successfully and reading its report
\* to the end, returned the result published before s or the complete result
\* of s.
ReaderAtomicity ==
    reader.pc = "reading" =>
        \A s \in reader.ov :
            (tasks[s].pc = "report" /\ tasks[s].fetchOk /\ ~tasks[s].broke)
                => reader.snap \in {tasks[s].pre, NewResult(s)}

\* C5 (immutable snapshot): while the caller of Metrics() is still reading
\* the buffer it got, the bytes it sees are the bytes Metrics() returned.
SnapshotImmutable == reader.pc = "reading" => reader.view = reader.snap

\* The tasks whose Scrape() has returned and whose result is not yet counted.
Returned == {t \in TaskIds : tasks[t].pc = "report"}

\* The scrapes whose samples the published result of e holds.
PublishedBy(e) == {Published(e)[n][1] : n \in 1 .. Len(Published(e))}

\* C6 (fetch failure clears the published result): when a Scrape() whose
\* fetch returned an error has returned, it reports failure and the
\* published result of its exporter holds no sample of an earlier scrape.
FetchFailureClears ==
    \A t \in Returned :
        ~tasks[t].fetchOk =>
            /\ tasks[t].res = FetchErrorResult
            /\ \A u \in PublishedBy(tasks[t].e) : u > t

\* C7 (outcome counters): the step that counts a completed scrape adds one
\* to scrapeFailures and nothing to parseFailures after a fetch error or a
\* broken stream; otherwise it adds the number of row failures of the scrape
\* to parseFailures and nothing to scrapeFailures.
OutcomeCounters ==
    [][\A t \in Returned :
          tasks'[t].pc # "report" =>
              IF ~tasks[t].fetchOk \/ tasks[t].broke
              THEN /\ scrapeFailures' = scrapeFailures + 1
                   /\ parseFailures' = parseFailures
              ELSE /\ scrapeFailures' = scrapeFailures
                   /\ parseFailures' = parseFailures + tasks[t].fails]_vars

\* The goroutines working for exporter e that take a step: a task inside
\* Scrape() of e, or the gather goroutine a Scrape() of e started.
StepsFor(e) ==
    {t \in TaskIds : tasks[t].pc \in ScrapePcs /\ tasks[t].e = e
                     /\ tasks'[t] # tasks[t]}
    \cup {g \in TaskIds : gathers[g].pc # "idle" /\ gathers[g].e = e
                          /\ gathers'[g] # gathers[g]}

\* C8 (fetch failure isolation): the published result of an exporter, and
\* the lock a reader of it needs, change only in a step of a Scrape() of that
\* exporter (or of the gather goroutine it started); a Scrape() of another
\* exporter, failed or not, leaves them unchanged.
FetchFailureIsolation ==
    [][\A e \in Exporters :
          (Published(e)' # Published(e) \/ emutex'[e] # emutex[e])
              => StepsFor(e) # {}]_vars

\* A scrape of one exporter has failed its fetch and cleared, while another
\* exporter has a published result.
IsolationWitness ==
    \E t \in TaskIds, e \in Exporters :
        /\ tasks[t].pc = "report"
        /\ ~tasks[t].fetchOk
        /\ tasks[t].e # e
        /\ Published(e) # <<>>
\* The record has the column, so the mapper worked on the record's own field.
HasColumn(c) == row # NoRow /\ c < row.n

UpStatuses == {"UP", "UP 1/3", "UP 2/3", "OPEN", "no check"}

\* C9 (status recoding): for a record whose status field (column 17) is not
\* empty, the emitted status sample has value 1 when the field is one of UP,
\* UP 1/3, UP 2/3, OPEN, no check, and value 0 otherwise.
StatusRecoding ==
    (HasColumn(StatusColumn) /\ row.status # "") =>
        \A smp \in out :
            smp.name = "status" =>
                smp.value = IF row.status \in UpStatuses THEN "1" ELSE "0"

\* The label the specification gives to an object-type code.
TypeLabelOf(code) ==
    IF code = "0" THEN "frontend"
    ELSE IF code = "1" THEN "backend"
    ELSE IF code = "2" THEN "server"
    ELSE IF code = "3" THEN "listen"
    ELSE ""

ShortRows ==
    (row # NoRow /\ row.n < minCsvFieldCount) =>
        /\ out = {}
        /\ rowFailures = 1
        /\ ~crashed

\* C12 (rows that pass the minimum-field check are mapped without fault): a
\* record of at least minCsvFieldCount fields never makes the mapper read
\* past the end of the record, and never aborts the scrape.
LongRowsMapped ==
    (row # NoRow /\ row.n >= minCsvFieldCount) => ~crashed

StreamErrorLikeFetchError ==
    \A t \in Returned :
        tasks[t].broke =>
            /\ tasks[t].res = FetchErrorResult
            /\ \A u \in PublishedBy(tasks[t].e) : u > t

\* C15 (monotone counters): no step decreases or resets scrapeCounter,
\* scrapeSkiped, scrapeFailures or parseFailures.
CountersMonotone ==
    [][/\ scrapeCounter' >= scrapeCounter
       /\ scrapeSkiped' >= scrapeSkiped
       /\ scrapeFailures' >= scrapeFailures
       /\ parseFailures' >= parseFailures]_vars

\* Every counter of the variant has moved.
CountersMoved ==
    /\ scrapeCounter > 0
    /\ scrapeSkiped > 0
    /\ scrapeFailures > 0
    /\ (variant = Prometheus => parseFailures > 0)

\* C16 (lock-protected counters): every step that writes scrapeCounter or
\* scrapeSkiped is a step of the loop holding Beamer.mutex, and every step
\* that writes scrapeFailures is a step of a task holding it.
CountersLocked ==
    [][/\ (scrapeCounter' # scrapeCounter \/ scrapeSkiped' # scrapeSkiped)
            => bmutex' = -1
       /\ scrapeFailures' # scrapeFailures => bmutex' \in TaskIds]_vars

\* The metric names an exporter may emit under its list of metrics.
AllowedNames ==
    IF allow = {} THEN {MetricName(c) : c \in MetricColumns} ELSE allow

\* C20 (metric allow-list): the samples of a record carry only names the
\* list allows (every name of the table when no list is set); a full record
\* yields a sample for every allowed column whose field is not empty (and, in
\* the prometheus variant, numeric); and column 32 is read whatever the list,
\* so that every sample carries the type label of its record.
AllowListRespected ==
    (row # NoRow /\ ~crashed) =>
        /\ {smp.name : smp \in out} \subseteq AllowedNames
        /\ row.n = rowLength =>
              \A c \in MetricColumns :
                  ( /\ MetricName(c) \in AllowedNames
                    /\ Field(row, c) # ""
                    /\ (variant = Sensision \/ c = StatusColumn
                            \/ ParseOk(Field(row, c))) )
                      => \E smp \in out : smp.name = MetricName(c)
        /\ HasColumn(TypeColumn) =>
              \A smp \in out :
                  smp.type = IF variant = Sensision
                             THEN TypeLabelOf(row.type)
                             ELSE row.type

\* A list that names ttime only: a full record with a status and a ttime
\* yields the ttime sample alone, labelled with the type of the record.
AllowListWitness ==
    /\ allow = {"ttime"}
    /\ row.n = rowLength
    /\ row.status = "UP"
    /\ row.ttime = "7"
    /\ row.type = "2"
    /\ out = {[name |-> "ttime", type |-> "server", value |-> "7"]}

\* C19 (per-source isolation of blocking): a /metrics request that still has
\* results of other exporters to deliver never waits for the lock of an
\* exporter whose scrape is reading its response stream.
HandlerNotBlocked ==
    \A t \in TaskIds :
        (tasks[t].pc = "parse" /\ handler = tasks[t].e)
            => handler = NExporters - 1

\* One complete rendering: the Beamer's counters, then every exporter.
CompleteRendering == [j \in 1 .. NExporters + 1 |-> j - 2]

\* C18 (snapshot files are never torn): every file visible under a
\* '.metrics' name holds one complete rendering.
FilesNeverTorn ==
    \A f \in 1 .. Len(files) : files[f] = CompleteRendering

\* C17 (idempotence of parse+map): when the same report has been scraped
\* twice in succession, the second scrape has produced what the first one
\* produced, nothing more and nothing less.
ScrapeIdempotent == scan.pc = "done" => store = first

\* Both scrapes are done, of a report whose first record lacks columns the
\* second one has, and samples were produced.
ScrapeTwiceWitness ==
    /\ scan.pc = "done"
    /\ Len(report) = MaxRows
    /\ report[1].n < report[MaxRows].n
    /\ store.samples # {}
    /\ first.samples # {}

\* C22 (round-robin order): the task of the k-th dispatch (k = 0, 1, ...)
\* scrapes exporter k mod NExporters, and no task fails to find its exporter.
RoundRobinOrder ==
    /\ ~crashed
    /\ \A t \in TaskIds :
          tasks[t].pc \notin {"idle", "start", "done"}
              => tasks[t].e = (t - 1) % NExporters

\* C25 (write-lock scope): a Scrape() that is reading and parsing its
\* response stream does not hold the write lock of its exporter.
WriteLockScope ==
    \A t \in TaskIds : tasks[t].pc = "parse" => emutex[tasks[t].e] # t

\* What a skipped tick leaves alone: the cursor, the attempted and failed
\* counters, the scrapes in flight and every published result.
SkipFrame ==
    /\ i' = i
    /\ scrapeCounter' = scrapeCounter
    /\ scrapeFailures' = scrapeFailures
    /\ parseFailures' = parseFailures
    /\ tasks' = tasks
    /\ \A e \in Exporters : Published(e)' = Published(e)

\* The ticks that found the channel full: those counted, and the one the
\* loop is about to count.
TicksSkipped == scrapeSkiped + IF schedPc = "skip" THEN 1 ELSE 0

\* C23 (effect of a skipped tick): the steps by which the loop handles a tick
\* that finds every slot occupied add one to scrapeSkiped and leave the
\* cursor, the other counters, the scrapes in flight and the published
\* results unchanged; the dispatched scrapes are as many as the ticks that
\* found a free slot.
SkippedTickEffect ==
    [][/\ (schedPc = "select" /\ ticks' # ticks /\ ~SlotFree) =>
              /\ SkipFrame
              /\ TicksSkipped' = TicksSkipped + 1
       /\ (schedPc = "skip" /\ schedPc' # schedPc) =>
              /\ SkipFrame
              /\ scrapeSkiped' = scrapeSkiped + 1
       /\ (schedPc = "skipUnlock" /\ schedPc' # schedPc) =>
              /\ SkipFrame
              /\ scrapeSkiped' = scrapeSkiped
       /\ Dispatched' = ticks' - TicksSkipped']_vars

\* A tick was skipped and counted while the first scrape is still fetching.
SkippedWhileInFlight ==
    /\ schedPc = "select"
    /\ scrapeSkiped > 0
    /\ tasks[1].pc = "fetch"
    /\ Dispatched = ticks - scrapeSkiped

\* C30 (the tick loop never waits for a scrape): whatever the scrapes in
\* flight, the loop can take the next tick, dispatching or skipping, and can
\* finish the handling of a tick; the one thing it waits for is Beamer.mutex,
\* which a task holds only after its Scrape() has returned.
LoopNeverWaits ==
    ~crashed =>
        /\ (schedPc = "select" /\ ~quickStart /\ ticks < MaxTicks)
              => ENABLED (SchedDispatch \/ SchedSkip)
        /\ schedPc = "count" => ENABLED SchedCount
        /\ schedPc = "wrap" => ENABLED SchedWrap
        /\ schedPc = "skipUnlock" => ENABLED SchedSkipUnlock
        /\ schedPc = "skip" =>
              \/ ENABLED SchedSkipLock
              \/ bmutex \in TaskIds /\ ENABLED TaskUnlockB(bmutex)

\* Every tick was handled while the first scrape is still fetching, and one
\* of them found the channel full.
LoopRanAhead ==
    /\ schedPc = "select"
    /\ ticks = MaxTicks
    /\ tasks[1].pc = "fetch"
    /\ scrapeSkiped > 0

\* C21 (no starvation): with ticks firing and every fetch returning, every
\* exporter is scraped: with room for two scrapes at once, the first two
\* ticks dispatch a scrape each, of the two exporters one after the other.
NoStarvation ==
    \A e \in Exporters :
        <>(\E t \in TaskIds : tasks[t].pc \in ScrapePcs /\ tasks[t].e = e)

\* The tasks that have given their slot back, and those whose Scrape() has
\* returned and been counted.
Released == {t \in TaskIds : tasks[t].pc = "done"}

Counted == {t \in TaskIds : tasks[t].pc \in {"unlockB", "release", "done"}}

AttemptsStarted == scrapeCounter + IF schedPc = "count" THEN 1 ELSE 0

TickInterval ==
    /\ ~crashed
    /\ interval # 0 =>
          /\ interval = Max(duration \div sources, 1)
          /\ interval > 0
          /\ sources <= duration => sources * interval <= duration

\* The samples emitted for column c of the record read last.
SamplesOf(c) == {smp \in out : smp.name = MetricName(c)}

\* C26 (per-field mapping): for a record that has the configured column
\* ttime (61), an empty field yields no sample and no failure, a field that
\* is not a base-10 integer yields no sample and exactly one failure, and an
\* integer field yields exactly one sample, of that value, and no failure.
PerFieldMapping ==
    ( /\ HasColumn(TtimeColumn)
      /\ MetricName(TtimeColumn) \in AllowedNames
      /\ ~crashed ) =>
        LET f == Field(row, TtimeColumn)
        IN /\ f = "" => SamplesOf(TtimeColumn) = {} /\ rowFailures = 0
           /\ (f # "" /\ ~ParseOk(f)) =>
                 SamplesOf(TtimeColumn) = {} /\ rowFailures = 1
           /\ ParseOk(f) =>
                 /\ Cardinality(SamplesOf(TtimeColumn)) = 1
                 /\ \A smp \in SamplesOf(TtimeColumn) : smp.value = f
                 /\ rowFailures = 0

\* C27 (label set): every sample emitted for a record carries the type label
\* derived from column 32 of that same record (the empty label when the
\* record has no such column), whatever the length of the record.
LabelsOfOwnRow ==
    (row # NoRow /\ ~crashed) =>
        \A smp \in out :
            smp.type = IF variant = Sensision
                       THEN TypeLabelOf(Field(row, TypeColumn))
                       ELSE Field(row, TypeColumn)

\* C28 (last-write-wins on repeated keys): the records of a report of the
\* model all carry the same pxname and svname, so two of them with the same
\* type repeat a key.  When the report has been scraped, the result holds at
\* most one sample per metric and type, as many lines were written as there
\* are samples, and the samples of the last record are among them.
LastWriteWins ==
    scan.pc = "done" =>
        /\ \A a, b \in store.samples :
              (a.name = b.name /\ a.type = b.type) => a = b
        /\ variant = Sensision => store.lines = Cardinality(store.samples)
        /\ out \subseteq store.samples

\* C31 (cursor validity at use): whenever a dispatched task is about to
\* evaluate exporters[i], the shared cursor is a valid index,
\* 0 <= i < NExporters.
CursorValidAtUse ==
    \A t \in TaskIds : tasks[t].pc = "start" => (0 <= i /\ i < NExporters)

\* C32 (the published result comes from one scrape): whenever no Scrape() of
\* an exporter is in progress, its published result is empty or the complete
\* output of one scrape, never the outputs of two scrapes one after the other
\* or mixed.
PublishedFromOneScrape ==
    \A e \in Exporters :
        InScrape(e) = {} =>
            \/ Published(e) = <<>>
            \/ \E s \in TaskIds : Published(e) = NewResult(s)

\* C33 (publication never regresses): once the published rendering of an
\* exporter shows what its GaugeVecs hold, that is the samples of the scrape
\* that parsed last, no step replaces it with another rendering: a rendering
\* that differs from the GaugeVecs was gathered earlier, from an earlier
\* scrape or between a clear() and the parse that followed.
PublicationNeverRegresses ==
    [][\A e \in Exporters :
          ( /\ variant = Prometheus
            /\ prometheus[e].data # <<>>
            /\ prometheus[e].data = Render(gauges[e]) )
              => prometheus'[e].data = prometheus[e].data]_vars

\* C34 (row isolation in the streaming parser): the samples emitted for a
\* record of a report are those its own fields give, as if the value slots
\* were empty when the record was read; nothing comes from an earlier record.
RowIsolation ==
    (variant = Sensision /\ scan.pc = "rows" /\ scan.pos > 0) =>
        out = SensisionSamples(ScanValues(EmptyValues, row))

====
